---------------------------- MODULE Spec2Model ----------------------------
(***************************************************************************)
(* Tool capability resolution (filter-tools-for-mode): the alias registry  *)
(* built at module load, the model customisation, the feature gates and    *)
(* the exported queries, as a state machine whose actions are the calls.   *)
(***************************************************************************)
EXTENDS Naturals, Sequences, FiniteSets, TLC

VARIABLES TOOL_ALIASES, ALIAS_TO_CANONICAL, phase, registered, lastReg, call, prev,
          welcome, codeMate

vars == <<TOOL_ALIASES, ALIAS_TO_CANONICAL, phase, registered, lastReg, call, prev,
          welcome, codeMate>>

(***************************************************************************)
(* Optional values: undefined is the empty tuple, a defined value v is the *)
(* one-element tuple <<v>>.                                                *)
(***************************************************************************)
None == <<>>
Some(v) == <<v>>
IsSome(o) == o # <<>>
Val(o) == o[1]

Range(s) == {s[i] : i \in 1..Len(s)}

(***************************************************************************)
(* Bounds of the model.                                                    *)
(***************************************************************************)
MaxRegs == 2
MaxAliases == 2
MaxIncluded == 2

(***************************************************************************)
(* Static data of shared/tools and shared/modes (read-only collaborators). *)
(***************************************************************************)
GroupNames == <<"read", "edit", "browser", "command", "mcp", "modes">>

TOOL_GROUPS ==
    [read    |-> [tools |-> <<"read_file", "search_files", "list_files", "codebase_search">>,
                  customTools |-> None],
     edit    |-> [tools |-> <<"apply_diff", "write_to_file", "generate_image">>,
                  customTools |-> Some(<<"search_and_replace", "apply_patch">>)],
     browser |-> [tools |-> <<"browser_action">>, customTools |-> None],
     command |-> [tools |-> <<"execute_command">>, customTools |-> None],
     mcp     |-> [tools |-> <<"use_mcp_tool", "access_mcp_resource">>, customTools |-> None],
     modes   |-> [tools |-> <<"switch_mode", "new_task">>, customTools |-> None]]

ALWAYS_AVAILABLE_TOOLS ==
    <<"ask_followup_question", "attempt_completion", "switch_mode", "new_task",
      "update_todo_list", "run_slash_command">>

EXPERIMENT_IDS == {"imageGeneration", "runSlashCommand"}

\* A group entry is <<name>> or <<name, options>> (the array form).
modes ==
    << [slug |-> "architect",
        groups |-> << <<"read">>, <<"edit", "markdown-only">>, <<"browser">>, <<"mcp">> >>],
       [slug |-> "code",
        groups |-> << <<"read">>, <<"edit">>, <<"browser">>, <<"command">>, <<"mcp">> >>],
       [slug |-> "ask",
        groups |-> << <<"read">>, <<"browser">>, <<"mcp">> >>] >>

defaultModeSlug == modes[1].slug

getGroupName(groupEntry) == groupEntry[1]

\* Array.prototype.find: the first element satisfying the test, or undefined.
FindMode(list, slug) ==
    LET hits == {i \in 1..Len(list) : list[i].slug = slug}
    IN  IF hits = {} THEN None
        ELSE Some(list[CHOOSE i \in hits : \A j \in hits : i <= j])

getModeBySlug(slug, customModes) ==
    LET custom == IF IsSome(customModes) THEN FindMode(Val(customModes), slug) ELSE None
    IN  IF IsSome(custom) THEN custom ELSE FindMode(modes, slug)

getToolsForMode(groups) ==
    UNION {Range(TOOL_GROUPS[getGroupName(groups[i])].tools) : i \in 1..Len(groups)}
        \cup Range(ALWAYS_AVAILABLE_TOOLS)

\* Called here with toolRequirements and toolParams undefined, so the
\* requirement test and the file-pattern restriction of a group never reject.
isToolAllowedForMode(tool, modeSlug, customModes, experiments) ==
    IF tool \in Range(ALWAYS_AVAILABLE_TOOLS) THEN TRUE
    ELSE IF tool \in EXPERIMENT_IDS /\ ~experiments[tool] THEN FALSE
    ELSE LET mode == getModeBySlug(modeSlug, customModes)
         IN  IF ~IsSome(mode) THEN FALSE
             ELSE \E i \in 1..Len(Val(mode).groups) :
                     tool \in Range(TOOL_GROUPS[getGroupName(Val(mode).groups[i])].tools)

(***************************************************************************)
(* The alias registry.                                                     *)
(***************************************************************************)
getAllToolNames ==
    UNION {Range(TOOL_GROUPS[GroupNames[g]].tools)
             \cup (IF IsSome(TOOL_GROUPS[GroupNames[g]].customTools)
                   THEN Range(Val(TOOL_GROUPS[GroupNames[g]].customTools)) ELSE {})
           : g \in 1..Len(GroupNames)}

\* Mutant: the validation loop without the test against the catalog's names.
RegisterThrowsNoCatalog(aliases) ==
    \E i \in 1..Len(aliases) :
        \/ aliases[i] \in DOMAIN ALIAS_TO_CANONICAL
        \/ aliases[i] \in DOMAIN TOOL_ALIASES

\* The validation loop of registerToolAliases: some alias makes it throw.
RegisterThrows(aliases) ==
    \E i \in 1..Len(aliases) :
        \/ aliases[i] \in DOMAIN ALIAS_TO_CANONICAL
        \/ aliases[i] \in DOMAIN TOOL_ALIASES
        \/ aliases[i] \in getAllToolNames

\* Map.set for each alias in turn (a later entry overwrites an earlier one).
SetAll(map, aliases, toolName) ==
    [k \in DOMAIN map \cup Range(aliases) |->
        IF k \in Range(aliases) THEN toolName ELSE map[k]]

\* Mutant: the entry of the canonical-to-aliases map is never written.
MapSetLost(map, key, value) == map

MapSet(map, key, value) ==
    [k \in DOMAIN map \cup {key} |-> IF k = key THEN value ELSE map[k]]

EmptyMap == [k \in {} |-> None]

\* registerToolAliases as a function of the two maps it reads and writes:
\* reg is [ta, ac, threw], the maps and whether an earlier call threw.
registerToolAliasesOn(reg, toolName, aliases) ==
    IF Len(aliases) = 0 THEN reg
    ELSE IF \E i \in 1..Len(aliases) :
                \/ aliases[i] \in DOMAIN reg.ac
                \/ aliases[i] \in DOMAIN reg.ta
                \/ aliases[i] \in getAllToolNames
         THEN [reg EXCEPT !.threw = TRUE]
         ELSE [reg EXCEPT !.ta = MapSet(reg.ta, toolName, aliases),
                          !.ac = SetAll(reg.ac, aliases, toolName)]

resolveToolAlias(toolName) ==
    IF toolName \in DOMAIN ALIAS_TO_CANONICAL THEN ALIAS_TO_CANONICAL[toolName]
    ELSE toolName

applyToolAliases(allowedTools) == {resolveToolAlias(tool) : tool \in allowedTools}

\* Mutant: an alias answered with its canonical tool alone.
getToolAliasGroupCanonicalOnly(toolName) ==
    IF toolName \in DOMAIN TOOL_ALIASES THEN <<toolName>> \o TOOL_ALIASES[toolName]
    ELSE IF toolName \in DOMAIN ALIAS_TO_CANONICAL
         THEN <<ALIAS_TO_CANONICAL[toolName]>>
         ELSE <<toolName>>

getToolAliasGroup(toolName) ==
    IF toolName \in DOMAIN TOOL_ALIASES THEN <<toolName>> \o TOOL_ALIASES[toolName]
    ELSE IF toolName \in DOMAIN ALIAS_TO_CANONICAL
         THEN <<ALIAS_TO_CANONICAL[toolName]>> \o TOOL_ALIASES[ALIAS_TO_CANONICAL[toolName]]
         ELSE <<toolName>>

\* [canonical, ...TOOL_ALIASES.get(canonical)!] throws when the alias's
\* canonical tool is not a key of TOOL_ALIASES (spread of undefined).
getToolAliasGroupThrows(toolName) ==
    /\ toolName \notin DOMAIN TOOL_ALIASES
    /\ toolName \in DOMAIN ALIAS_TO_CANONICAL
    /\ ALIAS_TO_CANONICAL[toolName] \notin DOMAIN TOOL_ALIASES

(***************************************************************************)
(* Model customisation.                                                    *)
(***************************************************************************)
\* toolToGroup.get(tool): the map is filled group by group, tools then
\* customTools, so the last group naming the tool is the one kept.
toolToGroup(tool) ==
    LET owns(g) == \/ tool \in Range(TOOL_GROUPS[GroupNames[g]].tools)
                   \/ /\ IsSome(TOOL_GROUPS[GroupNames[g]].customTools)
                      /\ tool \in Range(Val(TOOL_GROUPS[GroupNames[g]].customTools))
        hits == {g \in 1..Len(GroupNames) : owns(g)}
    IN  IF hits = {} THEN None
        ELSE Some(GroupNames[CHOOSE g \in hits : \A h \in hits : h <= g])

allowedGroups(modeConfig) ==
    {getGroupName(modeConfig.groups[i]) : i \in 1..Len(modeConfig.groups)}

\* Mutant: the include loop without its allowed-group test.
IncludeAcceptedAnyGroup(tool, modeConfig) ==
    IsSome(toolToGroup(resolveToolAlias(tool)))

\* The test guarding result.add in the includedTools loop.
IncludeAccepted(tool, modeConfig) ==
    LET toolGroup == toolToGroup(resolveToolAlias(tool))
    IN  IsSome(toolGroup) /\ Val(toolGroup) \in allowedGroups(modeConfig)

\* Mutant: the exclude loop stopping after its first entry.
ApplyExcludedFirstOnly(result, modelInfo) ==
    IF IsSome(modelInfo.excludedTools) /\ Len(Val(modelInfo.excludedTools)) > 0
    THEN result \ {resolveToolAlias(Val(modelInfo.excludedTools)[1])}
    ELSE result

\* Mutant: the exclude loop deleting the listed name without resolving it.
ApplyExcludedLiteral(result, modelInfo) ==
    IF IsSome(modelInfo.excludedTools)
    THEN result \ Range(Val(modelInfo.excludedTools))
    ELSE result

ApplyExcluded(result, modelInfo) ==
    IF IsSome(modelInfo.excludedTools)
    THEN result \ {resolveToolAlias(tool) : tool \in Range(Val(modelInfo.excludedTools))}
    ELSE result

ApplyIncluded(result, modeConfig, modelInfo) ==
    IF IsSome(modelInfo.includedTools)
    THEN result \cup {resolveToolAlias(tool) :
                        tool \in {t \in Range(Val(modelInfo.includedTools)) :
                                     IncludeAccepted(t, modeConfig)}}
    ELSE result

\* aliasRenames.set(resolvedTool, tool) in list order: the last accepted
\* alias entry of a canonical tool is the one the map ends with.
BuildAliasRenames(modeConfig, modelInfo) ==
    IF ~IsSome(modelInfo.includedTools) THEN EmptyMap
    ELSE LET inc == Val(modelInfo.includedTools)
             sets == {i \in 1..Len(inc) :
                        /\ IncludeAccepted(inc[i], modeConfig)
                        /\ inc[i] # resolveToolAlias(inc[i])}
             last(c) == CHOOSE i \in sets :
                           /\ resolveToolAlias(inc[i]) = c
                           /\ \A j \in sets : resolveToolAlias(inc[j]) = c => j <= i
         IN  [c \in {resolveToolAlias(inc[i]) : i \in sets} |-> inc[last(c)]]

\* The members of the set passed as allowedTools once the call has returned:
\* the loops write to the copy made at line 338, never to the argument.
AllowedToolsAfter(allowedTools, modeConfig, modelInfo) == allowedTools

\* Mutant: the includes applied before the excludes.
applyModelToolCustomizationExcludeLast(allowedTools, modeConfig, modelInfo) ==
    IF ~IsSome(modelInfo)
    THEN [allowedTools |-> allowedTools, aliasRenames |-> EmptyMap]
    ELSE [allowedTools |->
              ApplyExcluded(ApplyIncluded(allowedTools, modeConfig, Val(modelInfo)),
                            Val(modelInfo)),
          aliasRenames |-> BuildAliasRenames(modeConfig, Val(modelInfo))]

applyModelToolCustomization(allowedTools, modeConfig, modelInfo) ==
    IF ~IsSome(modelInfo)
    THEN [allowedTools |-> allowedTools, aliasRenames |-> EmptyMap]
    ELSE [allowedTools |->
              ApplyIncluded(ApplyExcluded(allowedTools, Val(modelInfo)),
                            modeConfig, Val(modelInfo)),
          aliasRenames |-> BuildAliasRenames(modeConfig, Val(modelInfo))]

(***************************************************************************)
(* filterNativeToolsForMode.                                               *)
(***************************************************************************)
ExperimentsOrEmpty(experiments) ==
    IF IsSome(experiments) THEN Val(experiments)
    ELSE [id \in EXPERIMENT_IDS |-> FALSE]

\* settings?.modelInfo
ModelInfoOf(settings) == IF IsSome(settings) THEN Val(settings).modelInfo ELSE None

\* settings?.<flag> === false
ExplicitlyFalse(settings, flag) ==
    IsSome(settings) /\ Val(settings)[flag] = Some(FALSE)

\* Mutant: the semantic-search test without isInitialized.
CodeIndexReadyUninitialized(codeIndexManager) ==
    /\ IsSome(codeIndexManager)
    /\ Val(codeIndexManager).isFeatureEnabled
    /\ Val(codeIndexManager).isFeatureConfigured

CodeIndexReady(codeIndexManager) ==
    /\ IsSome(codeIndexManager)
    /\ Val(codeIndexManager).isFeatureEnabled
    /\ Val(codeIndexManager).isFeatureConfigured
    /\ Val(codeIndexManager).isInitialized

\* Mutant: a server counts as soon as it has a resources list, even empty.
hasAnyMcpResourcesList(mcpHub) ==
    \E i \in 1..Len(Val(mcpHub)) : IsSome(Val(mcpHub)[i].resources)

hasAnyMcpResources(mcpHub) ==
    \E i \in 1..Len(Val(mcpHub)) :
        /\ IsSome(Val(mcpHub)[i].resources)
        /\ Len(Val(Val(mcpHub)[i].resources)) > 0

\* modeConfig.groups throws when neither the slug nor the default slug names
\* a mode (the non-null assertion of line 419 checks nothing at run time).
filterNativeToolsForModeThrows(mode, customModes) ==
    /\ ~IsSome(getModeBySlug(IF IsSome(mode) THEN Val(mode) ELSE defaultModeSlug, customModes))
    /\ ~IsSome(getModeBySlug(defaultModeSlug, customModes))

\* The resolved mode configuration (lines 412-420).
ResolveModeConfig(mode, customModes) ==
    LET modeSlug == IF IsSome(mode) THEN Val(mode) ELSE defaultModeSlug
        found == getModeBySlug(modeSlug, customModes)
    IN  IF IsSome(found) THEN Val(found)
        ELSE Val(getModeBySlug(defaultModeSlug, customModes))

\* Mutant: no tools at all when the slug names no mode.
BaseAllowedKnownSlug(mode, customModes, experiments) ==
    LET modeSlug == IF IsSome(mode) THEN Val(mode) ELSE defaultModeSlug
        modeConfig == ResolveModeConfig(mode, customModes)
    IN  IF ~IsSome(getModeBySlug(modeSlug, customModes)) THEN {}
        ELSE {tool \in getToolsForMode(modeConfig.groups) :
                 isToolAllowedForMode(tool, modeSlug,
                                      IF IsSome(customModes) THEN customModes ELSE Some(<<>>),
                                      ExperimentsOrEmpty(experiments))}

\* Mutant: the mode's tools taken with the customTools of its groups.
BaseAllowedWithCustomTools(mode, customModes, experiments) ==
    LET modeSlug == IF IsSome(mode) THEN Val(mode) ELSE defaultModeSlug
        modeConfig == ResolveModeConfig(mode, customModes)
        custom == UNION {IF IsSome(TOOL_GROUPS[g].customTools)
                         THEN Range(Val(TOOL_GROUPS[g].customTools)) ELSE {}
                         : g \in allowedGroups(modeConfig)}
    IN  {tool \in getToolsForMode(modeConfig.groups) :
            isToolAllowedForMode(tool, modeSlug,
                                 IF IsSome(customModes) THEN customModes ELSE Some(<<>>),
                                 ExperimentsOrEmpty(experiments))}
        \cup custom

\* allowedToolNames before model customisation (lines 422-437).
BaseAllowed(mode, customModes, experiments) ==
    LET modeSlug == IF IsSome(mode) THEN Val(mode) ELSE defaultModeSlug
        modeConfig == ResolveModeConfig(mode, customModes)
    IN  {tool \in getToolsForMode(modeConfig.groups) :
            isToolAllowedForMode(tool, modeSlug,
                                 IF IsSome(customModes) THEN customModes ELSE Some(<<>>),
                                 ExperimentsOrEmpty(experiments))}

\* Mutant: the diffEnabled rule deletes write_to_file as well.
GateRemovedWithWrite(experiments, codeIndexManager, settings, mcpHub) ==
    (IF ~CodeIndexReady(codeIndexManager) THEN {"codebase_search"} ELSE {})
    \cup (IF ExplicitlyFalse(settings, "todoListEnabled") THEN {"update_todo_list"} ELSE {})
    \cup (IF ~ExperimentsOrEmpty(experiments)["imageGeneration"]
          THEN {"generate_image"} ELSE {})
    \cup (IF ~ExperimentsOrEmpty(experiments)["runSlashCommand"]
          THEN {"run_slash_command"} ELSE {})
    \cup (IF ExplicitlyFalse(settings, "browserToolEnabled") THEN {"browser_action"} ELSE {})
    \cup (IF ExplicitlyFalse(settings, "diffEnabled")
          THEN {"apply_diff", "write_to_file"} ELSE {})
    \cup (IF ~IsSome(mcpHub) \/ ~hasAnyMcpResources(mcpHub)
          THEN {"access_mcp_resource"} ELSE {})

\* The tools some gate rule deletes (lines 451-487).
GateRemoved(experiments, codeIndexManager, settings, mcpHub) ==
    (IF ~CodeIndexReady(codeIndexManager) THEN {"codebase_search"} ELSE {})
    \cup (IF ExplicitlyFalse(settings, "todoListEnabled") THEN {"update_todo_list"} ELSE {})
    \cup (IF ~ExperimentsOrEmpty(experiments)["imageGeneration"]
          THEN {"generate_image"} ELSE {})
    \cup (IF ~ExperimentsOrEmpty(experiments)["runSlashCommand"]
          THEN {"run_slash_command"} ELSE {})
    \cup (IF ExplicitlyFalse(settings, "browserToolEnabled") THEN {"browser_action"} ELSE {})
    \cup (IF ExplicitlyFalse(settings, "diffEnabled") THEN {"apply_diff"} ELSE {})
    \cup (IF ~IsSome(mcpHub) \/ ~hasAnyMcpResources(mcpHub)
          THEN {"access_mcp_resource"} ELSE {})

\* allowedToolNames after customisation and alias resolution (lines 439-449).
CustomizedAllowed(mode, customModes, experiments, settings) ==
    applyToolAliases(
        applyModelToolCustomization(BaseAllowed(mode, customModes, experiments),
                                    ResolveModeConfig(mode, customModes),
                                    ModelInfoOf(settings)).allowedTools)

\* Mutant: the gate rules run before the model customisation.
FinalAllowedGateFirst(mode, customModes, experiments, codeIndexManager, settings, mcpHub) ==
    applyToolAliases(
        applyModelToolCustomization(
            BaseAllowed(mode, customModes, experiments)
                \ GateRemoved(experiments, codeIndexManager, settings, mcpHub),
            ResolveModeConfig(mode, customModes),
            ModelInfoOf(settings)).allowedTools)

\* allowedToolNames when the output loop starts (line 489).
FinalAllowed(mode, customModes, experiments, codeIndexManager, settings, mcpHub) ==
    CustomizedAllowed(mode, customModes, experiments, settings)
        \ GateRemoved(experiments, codeIndexManager, settings, mcpHub)

\* Mutant: the output loop without the rename.
EmitToolsNoRename(nativeTools, allowedToolNames, aliasRenames) ==
    LET F[i \in 0..Len(nativeTools)] ==
            IF i = 0 THEN <<>>
            ELSE IF /\ nativeTools[i].kind = "function"
                    /\ nativeTools[i].name \in allowedToolNames
                 THEN Append(F[i - 1], [src |-> i, name |-> nativeTools[i].name])
                 ELSE F[i - 1]
    IN  F[Len(nativeTools)]

\* Mutant: the output loop adding each entry at the front of the list.
EmitToolsAtFront(nativeTools, allowedToolNames, aliasRenames) ==
    LET F[i \in 0..Len(nativeTools)] ==
            IF i = 0 THEN <<>>
            ELSE IF /\ nativeTools[i].kind = "function"
                    /\ nativeTools[i].name \in allowedToolNames
                 THEN <<[src |-> i,
                         name |-> IF nativeTools[i].name \in DOMAIN aliasRenames
                                  THEN aliasRenames[nativeTools[i].name]
                                  ELSE nativeTools[i].name]>> \o F[i - 1]
                 ELSE F[i - 1]
    IN  F[Len(nativeTools)]

\* Mutant: the output loop also keeping a candidate named by an alias of an
\* allowed tool.
EmitToolsResolvingCandidates(nativeTools, allowedToolNames, aliasRenames) ==
    LET keep(i) == /\ nativeTools[i].kind = "function"
                   /\ resolveToolAlias(nativeTools[i].name) \in allowedToolNames
        entry(i) == [src |-> i,
                     name |-> IF nativeTools[i].name \in DOMAIN aliasRenames
                              THEN aliasRenames[nativeTools[i].name]
                              ELSE nativeTools[i].name]
        F[i \in 0..Len(nativeTools)] ==
            IF i = 0 THEN <<>>
            ELSE IF keep(i) THEN Append(F[i - 1], entry(i)) ELSE F[i - 1]
    IN  F[Len(nativeTools)]

\* The output loop (lines 489-513): src is the position of the candidate.
EmitTools(nativeTools, allowedToolNames, aliasRenames) ==
    LET keep(i) == /\ nativeTools[i].kind = "function"
                   /\ nativeTools[i].name \in allowedToolNames
        entry(i) == [src |-> i,
                     name |-> IF nativeTools[i].name \in DOMAIN aliasRenames
                              THEN aliasRenames[nativeTools[i].name]
                              ELSE nativeTools[i].name]
        F[i \in 0..Len(nativeTools)] ==
            IF i = 0 THEN <<>>
            ELSE IF keep(i) THEN Append(F[i - 1], entry(i)) ELSE F[i - 1]
    IN  F[Len(nativeTools)]

\* Mutant: a renamed candidate gets the alias written into its own name.
NativeToolsAfterRenamedInPlace(nativeTools, allowedToolNames, aliasRenames) ==
    [i \in 1..Len(nativeTools) |->
        IF /\ nativeTools[i].kind = "function"
           /\ nativeTools[i].name \in allowedToolNames
           /\ nativeTools[i].name \in DOMAIN aliasRenames
        THEN [nativeTools[i] EXCEPT !.name = aliasRenames[nativeTools[i].name]]
        ELSE nativeTools[i]]

\* The candidate definitions once the output loop has run (lines 489-513):
\* a renamed entry is a new object spread from the candidate, and nothing
\* is assigned to a candidate or to its function.
NativeToolsAfter(nativeTools, allowedToolNames, aliasRenames) ==
    [i \in 1..Len(nativeTools) |-> nativeTools[i]]

filterNativeToolsForMode(nativeTools, mode, customModes, experiments, codeIndexManager, settings, mcpHub) ==
    EmitTools(nativeTools,
              FinalAllowed(mode, customModes, experiments, codeIndexManager, settings, mcpHub),
              applyModelToolCustomization(BaseAllowed(mode, customModes, experiments),
                                          ResolveModeConfig(mode, customModes),
                                          ModelInfoOf(settings)).aliasRenames)

(***************************************************************************)
(* isToolAllowedInMode.                                                    *)
(***************************************************************************)
isToolAllowedInMode(toolName, mode, customModes, experiments, codeIndexManager, settings) ==
    LET modeSlug == IF IsSome(mode) THEN Val(mode) ELSE defaultModeSlug
        aliasGroup == getToolAliasGroup(toolName)
    IN  IF toolName \in Range(ALWAYS_AVAILABLE_TOOLS)
        THEN IF toolName = "codebase_search" THEN CodeIndexReady(codeIndexManager)
             ELSE IF toolName = "update_todo_list"
                  THEN ~ExplicitlyFalse(settings, "todoListEnabled")
             ELSE IF toolName = "generate_image"
                  THEN IsSome(experiments) /\ Val(experiments)["imageGeneration"]
             ELSE IF toolName = "run_slash_command"
                  THEN IsSome(experiments) /\ Val(experiments)["runSlashCommand"]
             ELSE TRUE
        ELSE IF toolName = "browser_action" /\ ExplicitlyFalse(settings, "browserToolEnabled")
             THEN FALSE
        ELSE \E i \in 1..Len(aliasGroup) :
                isToolAllowedForMode(aliasGroup[i], modeSlug,
                                     IF IsSome(customModes) THEN customModes ELSE Some(<<>>),
                                     ExperimentsOrEmpty(experiments))

\* isToolAllowedInMode throws where its getToolAliasGroup call does.
isToolAllowedInModeThrows(toolName, settings) ==
    /\ toolName \notin Range(ALWAYS_AVAILABLE_TOOLS)
    /\ ~(toolName = "browser_action" /\ ExplicitlyFalse(settings, "browserToolEnabled"))
    /\ getToolAliasGroupThrows(toolName)

(***************************************************************************)
(* getAvailableToolsInGroup and filterMcpToolsForMode.                     *)
(***************************************************************************)
getAvailableToolsInGroupThrows(groupName, settings) ==
    /\ groupName \in DOMAIN TOOL_GROUPS
    /\ \E i \in 1..Len(TOOL_GROUPS[groupName].tools) :
          isToolAllowedInModeThrows(TOOL_GROUPS[groupName].tools[i], settings)

\* Mutant: the group's tools returned without the filter.
getAvailableToolsInGroupUnfiltered(groupName, mode, customModes, experiments, codeIndexManager, settings) ==
    IF groupName \notin DOMAIN TOOL_GROUPS THEN <<>>
    ELSE TOOL_GROUPS[groupName].tools

getAvailableToolsInGroup(groupName, mode, customModes, experiments, codeIndexManager, settings) ==
    IF groupName \notin DOMAIN TOOL_GROUPS THEN <<>>
    ELSE LET allowed(tool) == isToolAllowedInMode(tool, mode, customModes, experiments,
                                                  codeIndexManager, settings)
         IN  SelectSeq(TOOL_GROUPS[groupName].tools, allowed)

\* Mutant: a slug that names no mode is answered for the default mode.
filterMcpToolsForModeFallback(mcpTools, mode, customModes, experiments) ==
    IF "mcp" \in allowedGroups(ResolveModeConfig(mode, customModes)) THEN mcpTools ELSE <<>>

filterMcpToolsForMode(mcpTools, mode, customModes, experiments) ==
    LET modeSlug == IF IsSome(mode) THEN Val(mode) ELSE defaultModeSlug
        isMcpAllowed == isToolAllowedForMode("use_mcp_tool", modeSlug,
                            IF IsSome(customModes) THEN customModes ELSE Some(<<>>),
                            ExperimentsOrEmpty(experiments))
    IN  IF isMcpAllowed THEN mcpTools ELSE <<>>

(***************************************************************************)
(* Inputs of the calls, drawn from small sets.                             *)
(***************************************************************************)
SeqsUpTo(S, n) == UNION {[1..k -> S] : k \in 0..n}

\* Arbitrary registrations: the tools that may declare aliases and the names
\* they may declare ("read_file" is a tool of the catalog; "update_todo_list"
\* is a tool no group lists, and may itself register aliases).
RegTools == {"apply_diff", "search_and_replace", "browser_action", "update_todo_list"}
AliasNames == {"edit_file", "write_file", "read_file", "update_todo_list"}

\* The tool definitions whose aliases the module registers when it loads.
ToolAliasDefs ==
    { [name |-> "apply_diff", aliases |-> <<"edit_file", "write_file">>],
      [name |-> "apply_diff", aliases |-> <<"write_file">>],
      [name |-> "search_and_replace", aliases |-> <<"edit_file">>],
      [name |-> "browser_action", aliases |-> <<"edit_file">>],
      [name |-> "update_todo_list", aliases |-> <<"edit_file">>],
      [name |-> "write_to_file", aliases |-> <<>>] }

roMode == [slug |-> "ro", groups |-> << <<"read">> >>]

ModeArgs == {None, Some("code"), Some("ro")}
CustomModeArgs == {None, Some(<<roMode>>)}
\* An absent experiments object reads like one with every flag off.
ExperimentArgs ==
    {None} \cup {Some([imageGeneration |-> f[1], runSlashCommand |-> f[2]]) :
                    f \in {<<TRUE, TRUE>>, <<TRUE, FALSE>>, <<FALSE, TRUE>>}}
\* No manager, a ready one, and one with exactly one of its three facts false.
CodeIndexArgs ==
    {None} \cup
    {Some([isFeatureEnabled |-> f[1], isFeatureConfigured |-> f[2], isInitialized |-> f[3]]) :
        f \in {<<TRUE, TRUE, TRUE>>, <<FALSE, TRUE, TRUE>>,
               <<TRUE, FALSE, TRUE>>, <<TRUE, TRUE, FALSE>>}}
HubArgs ==
    {None, Some(<<[resources |-> None], [resources |-> Some(<<>>)]>>),
     Some(<<[resources |-> Some(<<>>)], [resources |-> Some(<<"res">>)]>>)}

ExcludeLists == {<<>>, <<"apply_diff">>, <<"edit_file">>}
IncludeNames == {"apply_diff", "search_and_replace", "edit_file", "write_file"}
ModelInfoArgs ==
    {None} \cup
    {Some([excludedTools |-> e, includedTools |-> i]) :
        e \in {None} \cup {Some(x) : x \in ExcludeLists},
        i \in {None} \cup {Some(x) : x \in SeqsUpTo(IncludeNames, MaxIncluded)}}

Flags == {Some(TRUE), Some(FALSE)}
SettingsWith(modelInfos) ==
    {Some([todoListEnabled |-> t, browserToolEnabled |-> b, diffEnabled |-> d, modelInfo |-> m]) :
        t \in Flags, b \in Flags, d \in Flags, m \in modelInfos}

FnTool(name) == [kind |-> "function", name |-> name]
AllCandidates ==
    << FnTool("read_file"), FnTool("codebase_search"), FnTool("apply_diff"),
       FnTool("write_to_file"), FnTool("generate_image"), FnTool("search_and_replace"),
       FnTool("browser_action"), FnTool("execute_command"), FnTool("use_mcp_tool"),
       FnTool("access_mcp_resource"), FnTool("switch_mode"), FnTool("attempt_completion"),
       FnTool("update_todo_list"), FnTool("run_slash_command"),
       FnTool("edit_file"), FnTool("write_file") >>
FewCandidates ==
    << [kind |-> "custom", name |-> "apply_diff"], FnTool("write_file"),
       FnTool("update_todo_list"), FnTool("search_and_replace"), FnTool("browser_action"),
       FnTool("read_file"), FnTool("search_and_replace") >>
CandidateArgs == {AllCandidates, FewCandidates}

\* The inputs of one call of an exported function.
CallInputs(toolNames, candidates, modeArgs, customModeArgs, experimentArgs, codeIndexArgs, settingsArgs, hubArgs) ==
    [toolName : toolNames, nativeTools : candidates, mode : modeArgs,
     customModes : customModeArgs, experiments : experimentArgs,
     codeIndexManager : codeIndexArgs, settings : settingsArgs, mcpHub : hubArgs]

AllOn == Some([isFeatureEnabled |-> TRUE, isFeatureConfigured |-> TRUE, isInitialized |-> TRUE])
BothExperiments == Some([imageGeneration |-> TRUE, runSlashCommand |-> TRUE])
HubWithResources == Some(<<[resources |-> Some(<<>>)], [resources |-> Some(<<"res">>)]>>)
IncludesDiff ==
    Some([excludedTools |-> None, includedTools |-> Some(<<"apply_diff", "edit_file">>)])

\* Every model customisation: in every mode with every feature on, and in a
\* built-in mode and under an unknown slug with every feature off.
ModelSlice ==
    CallInputs({""}, CandidateArgs, ModeArgs, CustomModeArgs, {BothExperiments}, {AllOn},
               {Some([todoListEnabled |-> Some(TRUE), browserToolEnabled |-> Some(TRUE),
                      diffEnabled |-> Some(TRUE), modelInfo |-> m]) : m \in ModelInfoArgs},
               {HubWithResources})
    \cup
    CallInputs({""}, {AllCandidates}, {Some("code"), Some("ro")}, {None}, {None}, {None},
               {Some([todoListEnabled |-> Some(FALSE), browserToolEnabled |-> Some(FALSE),
                      diffEnabled |-> Some(FALSE), modelInfo |-> m]) : m \in ModelInfoArgs},
               {None})

\* The runtime facts the gates read, each on, off and absent, with a model
\* that asks for the diff tool by name and by alias.
GateSlice ==
    CallInputs({""}, {AllCandidates}, {None, Some("code")}, {None}, ExperimentArgs,
               CodeIndexArgs, {None} \cup SettingsWith({IncludesDiff}), HubArgs)

\* A model that asks for the two tools whose gates read a collaborator, with
\* every state of the code-index manager and of the MCP hub.
IncludesGated ==
    {Some([excludedTools |-> e, includedTools |-> Some(<<"codebase_search", "access_mcp_resource">>)]) :
        e \in {None, Some(<<"codebase_search", "access_mcp_resource">>)}}
CollaboratorSlice ==
    CallInputs({""}, {AllCandidates}, {None, Some("ro")}, {Some(<<roMode>>)}, {BothExperiments},
               CodeIndexArgs,
               {Some([todoListEnabled |-> Some(TRUE), browserToolEnabled |-> Some(TRUE),
                      diffEnabled |-> Some(TRUE), modelInfo |-> m]) : m \in IncludesGated},
               HubArgs)

\* A model with two excluded tools, one named by an alias, alone and with
\* two included tools.
TwoExcluded ==
    {Some([excludedTools |-> Some(<<"edit_file", "write_to_file">>), includedTools |-> i]) :
        i \in {None, Some(<<"write_file", "search_and_replace">>),
                     Some(<<"write_to_file", "edit_file">>)}}
TwoExcludedSlice ==
    CallInputs({""}, {AllCandidates}, {Some("code")}, {None}, {BothExperiments}, {AllOn},
               {Some([todoListEnabled |-> Some(TRUE), browserToolEnabled |-> Some(TRUE),
                      diffEnabled |-> Some(TRUE), modelInfo |-> m]) : m \in TwoExcluded},
               {HubWithResources})

FilterInputs == ModelSlice \cup GateSlice \cup CollaboratorSlice \cup TwoExcludedSlice

\* The single-tool query: canonical names, alias names and gated tools.
ToolNameArgs ==
    {"apply_diff", "search_and_replace", "browser_action", "update_todo_list",
     "run_slash_command", "codebase_search", "read_file", "edit_file", "write_file",
     "attempt_completion"}

AllowedInputs ==
    CallInputs(ToolNameArgs, {<<>>}, ModeArgs, CustomModeArgs, ExperimentArgs,
               {None, AllOn}, {None} \cup SettingsWith({None}), {None})

\* The group query: three groups of the catalog and a name that is none.
GroupInputs ==
    [groupName : {"read", "edit", "mcp", "nogroup"}, mode : ModeArgs,
     customModes : CustomModeArgs, experiments : {None, BothExperiments},
     codeIndexManager : {None, AllOn},
     settings : {None} \cup {Some([todoListEnabled |-> f, browserToolEnabled |-> f,
                                    diffEnabled |-> f, modelInfo |-> None]) : f \in Flags}]

McpInputs ==
    [mcpTools : {<<>>, <<FnTool("mcp--srv--query"), FnTool("mcp--srv--fetch")>>},
     mode : ModeArgs, customModes : CustomModeArgs, experiments : {None, BothExperiments}]

\* The calls a caller repeats: its own mode "ro" or none, every feature on,
\* and a model that names tools by alias.
RepeatInputs ==
    CallInputs({""}, CandidateArgs, {None, Some("ro")}, {Some(<<roMode>>)}, {BothExperiments},
               {AllOn},
               {Some([todoListEnabled |-> Some(TRUE), browserToolEnabled |-> Some(TRUE),
                      diffEnabled |-> Some(TRUE), modelInfo |-> m]) :
                   m \in {None, IncludesDiff,
                          Some([excludedTools |-> Some(<<"edit_file">>),
                                includedTools |-> Some(<<"write_file">>)])}},
               {HubWithResources})

(***************************************************************************)
(* The state machine.                                                      *)
(***************************************************************************)
NoReg == [toolName |-> "", aliases |-> <<>>, threw |-> FALSE]
NoInputs ==
    [toolName |-> "", nativeTools |-> <<>>, mode |-> None, customModes |-> None,
     experiments |-> None, codeIndexManager |-> None, settings |-> None, mcpHub |-> None]
\* A call in progress: its inputs, its result (list or flag) and, for
\* filterNativeToolsForMode, its locals: allowedToolNames after the mode
\* filter (base), after customisation (customized), when the output loop
\* starts (final), and aliasRenames; and what the caller's objects hold when
\* it returns: the set handed to applyModelToolCustomization (baseAfter) and
\* the candidate definitions (nativeToolsAfter).
NoCall ==
    [op |-> "none", in |-> NoInputs, threw |-> FALSE, list |-> <<>>, flag |-> FALSE,
     base |-> {}, customized |-> {}, final |-> {}, aliasRenames |-> EmptyMap,
     baseAfter |-> {}, nativeToolsAfter |-> <<>>]

\* The webview can have this many model requests unanswered.
MaxInFlight == 2

\* WelcomeViewProvider: the useState values of the token flow (lines 32-45),
\* the armed useDebounce timer, the requests the extension has not answered,
\* the models of the latest response and the last message of Get Started.
WelcomeInit ==
    [selectedProvider |-> "roo", authInProgress |-> FALSE, errorMessage |-> None,
     rooToken |-> "", isLoadingModels |-> FALSE, availableModels |-> <<>>,
     selectedModelId |-> "", tokenErrorMessage |-> None,
     debounce |-> TRUE, requests |-> <<>>, latest |-> None, posted |-> None]

\* CodeMate: the props it reads from apiConfiguration, its refs and useState
\* values (lines 27-32), the requests the extension has not answered, the key
\* of the last request sent and the key of the request answered last.
CodeMateInit ==
    [openAiApiKey |-> "", openAiBaseUrl |-> None, openAiModelId |-> "",
     debounceTimeoutRef |-> None, lastValidatedKeyRef |-> None,
     validationStatus |-> "idle", openAiModels |-> None,
     requests |-> <<>>, lastRequested |-> None, answered |-> None]

Init ==
    /\ TOOL_ALIASES = EmptyMap
    /\ ALIAS_TO_CANONICAL = EmptyMap
    /\ phase = "boot"
    /\ registered = {}
    /\ lastReg = NoReg
    /\ call = NoCall
    /\ prev = None
    /\ welcome = WelcomeInit
    /\ codeMate = CodeMateInit

\* registerToolAliases(toolName, aliases), one call of the module's load.
registerToolAliases(toolName, aliases) ==
    /\ phase = "boot"
    /\ lastReg' = [toolName |-> toolName, aliases |-> aliases,
                   threw |-> Len(aliases) # 0 /\ RegisterThrows(aliases)]
    /\ registered' = registered \cup {toolName}
    /\ IF Len(aliases) = 0 \/ RegisterThrows(aliases)
       THEN UNCHANGED <<TOOL_ALIASES, ALIAS_TO_CANONICAL>>
       ELSE /\ TOOL_ALIASES' = MapSet(TOOL_ALIASES, toolName, aliases)
            /\ ALIAS_TO_CANONICAL' = SetAll(ALIAS_TO_CANONICAL, aliases, toolName)
    /\ UNCHANGED <<phase, call, prev, welcome, codeMate>>

\* The load registers the aliases of the tool definitions, each tool once.
Register ==
    \E def \in ToolAliasDefs :
        /\ Cardinality(registered) < MaxRegs
        /\ def.name \notin registered
        /\ registerToolAliases(def.name, def.aliases)

\* Any sequence of registrations, each canonical name at most once.
RegisterAny ==
    \E toolName \in RegTools \ registered, aliases \in SeqsUpTo(AliasNames, MaxAliases) :
        /\ Cardinality(registered) < MaxRegs
        /\ registerToolAliases(toolName, aliases)

\* The module has loaded: the exported functions can be called from now on.
ModuleLoaded ==
    /\ phase = "boot"
    /\ phase' = "ready"
    /\ registered' = {}
    /\ lastReg' = NoReg
    /\ UNCHANGED <<TOOL_ALIASES, ALIAS_TO_CANONICAL, call, prev, welcome, codeMate>>

\* One call of filterNativeToolsForMode with inputs of the given set.
FilterCall(inputs) ==
    /\ phase = "ready"
    /\ call.op = "none"
    /\ \E in \in inputs :
        IF filterNativeToolsForModeThrows(in.mode, in.customModes)
        THEN call' = [NoCall EXCEPT !.op = "filterNativeToolsForMode", !.in = in,
                                    !.threw = TRUE]
        ELSE LET custom == applyModelToolCustomization(
                               BaseAllowed(in.mode, in.customModes, in.experiments),
                               ResolveModeConfig(in.mode, in.customModes),
                               ModelInfoOf(in.settings))
             IN  call' = [op |-> "filterNativeToolsForMode", in |-> in, threw |-> FALSE,
                          list |-> filterNativeToolsForMode(in.nativeTools, in.mode,
                                       in.customModes, in.experiments, in.codeIndexManager,
                                       in.settings, in.mcpHub),
                          flag |-> FALSE,
                          base |-> BaseAllowed(in.mode, in.customModes, in.experiments),
                          customized |-> custom.allowedTools,
                          final |-> FinalAllowed(in.mode, in.customModes, in.experiments,
                                                 in.codeIndexManager, in.settings, in.mcpHub),
                          aliasRenames |-> custom.aliasRenames,
                          baseAfter |-> AllowedToolsAfter(
                                            BaseAllowed(in.mode, in.customModes, in.experiments),
                                            ResolveModeConfig(in.mode, in.customModes),
                                            ModelInfoOf(in.settings)),
                          nativeToolsAfter |-> NativeToolsAfter(in.nativeTools,
                                                   FinalAllowed(in.mode, in.customModes,
                                                       in.experiments, in.codeIndexManager,
                                                       in.settings, in.mcpHub),
                                                   custom.aliasRenames)]
    /\ UNCHANGED <<TOOL_ALIASES, ALIAS_TO_CANONICAL, phase, registered, lastReg, prev, welcome, codeMate>>

FilterNativeToolsForMode == FilterCall(FilterInputs)

\* The caller calls again with inputs it may have used before.
FilterRepeated == FilterCall(RepeatInputs)

IsToolAllowedInMode ==
    /\ phase = "ready"
    /\ call.op = "none"
    /\ \E in \in AllowedInputs :
        IF isToolAllowedInModeThrows(in.toolName, in.settings)
        THEN call' = [NoCall EXCEPT !.op = "isToolAllowedInMode", !.in = in, !.threw = TRUE]
        ELSE call' = [NoCall EXCEPT
                         !.op = "isToolAllowedInMode", !.in = in,
                         !.flag = isToolAllowedInMode(in.toolName, in.mode, in.customModes,
                                      in.experiments, in.codeIndexManager, in.settings)]
    /\ UNCHANGED <<TOOL_ALIASES, ALIAS_TO_CANONICAL, phase, registered, lastReg, prev, welcome, codeMate>>

GetAvailableToolsInGroup ==
    /\ phase = "ready"
    /\ call.op = "none"
    /\ \E in \in GroupInputs :
        IF getAvailableToolsInGroupThrows(in.groupName, in.settings)
        THEN call' = [NoCall EXCEPT !.op = "getAvailableToolsInGroup", !.in = in,
                                    !.threw = TRUE]
        ELSE call' = [NoCall EXCEPT
                         !.op = "getAvailableToolsInGroup", !.in = in,
                         !.list = getAvailableToolsInGroup(in.groupName, in.mode,
                                      in.customModes, in.experiments, in.codeIndexManager,
                                      in.settings)]
    /\ UNCHANGED <<TOOL_ALIASES, ALIAS_TO_CANONICAL, phase, registered, lastReg, prev, welcome, codeMate>>

FilterMcpToolsForMode ==
    /\ phase = "ready"
    /\ call.op = "none"
    /\ \E in \in McpInputs :
        call' = [NoCall EXCEPT
                    !.op = "filterMcpToolsForMode", !.in = in,
                    !.list = filterMcpToolsForMode(in.mcpTools, in.mode, in.customModes,
                                                   in.experiments)]
    /\ UNCHANGED <<TOOL_ALIASES, ALIAS_TO_CANONICAL, phase, registered, lastReg, prev, welcome, codeMate>>

\* Mutant: returning drops the alias registry.
ReturnDroppingAliases ==
    /\ call.op # "none"
    /\ call' = NoCall
    /\ TOOL_ALIASES' = EmptyMap
    /\ ALIAS_TO_CANONICAL' = EmptyMap
    /\ UNCHANGED <<phase, registered, lastReg, prev, welcome, codeMate>>

\* The call returns to its caller; the next call starts from there.
Return ==
    /\ call.op # "none"
    /\ call' = NoCall
    /\ UNCHANGED <<TOOL_ALIASES, ALIAS_TO_CANONICAL, phase, registered, lastReg, prev, welcome, codeMate>>

\* filterNativeToolsForMode returns and its caller keeps the inputs and the
\* list it got.
ReturnKept ==
    /\ call.op = "filterNativeToolsForMode"
    /\ ~call.threw
    /\ prev' = Some([in |-> call.in, list |-> call.list])
    /\ call' = NoCall
    /\ UNCHANGED <<TOOL_ALIASES, ALIAS_TO_CANONICAL, phase, registered, lastReg,
                   welcome, codeMate>>

Next ==
    \/ Register
    \/ ModuleLoaded
    \/ FilterNativeToolsForMode
    \/ IsToolAllowedInMode
    \/ GetAvailableToolsInGroup
    \/ FilterMcpToolsForMode
    \/ Return

Spec == Init /\ [][Next]_vars

NextRegistry == RegisterAny

SpecRegistry == Init /\ [][NextRegistry]_vars

\* A caller that repeats filterNativeToolsForMode calls, with the other
\* queries in between.
NextRepeat ==
    \/ Register
    \/ ModuleLoaded
    \/ FilterRepeated
    \/ GetAvailableToolsInGroup
    \/ FilterMcpToolsForMode
    \/ Return
    \/ ReturnKept

SpecRepeat == Init /\ [][NextRepeat]_vars

\* Tool definitions that declare the name of an always-available tool, which
\* no group lists, as an alias.
AlwaysAvailableAliasDefs ==
    { [name |-> "apply_diff", aliases |-> <<"update_todo_list">>],
      [name |-> "search_and_replace", aliases |-> <<"attempt_completion">>] }

\* The load with those definitions among the ones it registers.
RegisterDeclared ==
    \E def \in ToolAliasDefs \cup AlwaysAvailableAliasDefs :
        /\ Cardinality(registered) < MaxRegs
        /\ def.name \notin registered
        /\ registerToolAliases(def.name, def.aliases)

NextDeclared ==
    \/ RegisterDeclared
    \/ ModuleLoaded
    \/ FilterRepeated
    \/ Return

SpecDeclared == Init /\ [][NextDeclared]_vars

(***************************************************************************)
(* WelcomeViewProvider: the token flow.                                    *)
(***************************************************************************)
toolVars == <<TOOL_ALIASES, ALIAS_TO_CANONICAL, phase, registered, lastReg, call, prev>>

RemoveAt(s, i) == [j \in 1..(Len(s) - 1) |-> IF j < i THEN s[j] ELSE s[j + 1]]

\* What the user can type into the token field; " " is white space only.
Tokens == {"", " ", "tok1", "tok2"}
\* String.prototype.trim on those values.
Trim(str) == IF str = " " THEN "" ELSE str

\* The models object of a response: its keys in insertion order.
ModelLists == {<<>>, <<"m1", "m2">>, <<"m2", "m3">>}
\* The rooModelsWithTokenResponse messages the extension can send.
RooModelsResponses ==
    {[success |-> TRUE, models |-> m, error |-> None] :
        m \in {None} \cup {Some(l) : l \in ModelLists}}
    \cup {[success |-> FALSE, models |-> None, error |-> e] :
            e \in {None, Some("Invalid token")}}

ProviderOptions == {"roo", "roo-token", "custom"}

\* The radio group's onChange (line 343).
SelectProvider ==
    /\ ~welcome.authInProgress
    /\ \E option \in ProviderOptions :
          welcome' = [welcome EXCEPT !.selectedProvider = option]
    /\ UNCHANGED <<toolVars, codeMate>>

\* handleTokenChange (lines 177-181); the changed rooToken re-arms the timer
\* of useDebounce.
HandleTokenChange ==
    /\ ~welcome.authInProgress
    /\ welcome.selectedProvider = "roo-token"
    /\ \E token \in Tokens :
          welcome' = [welcome EXCEPT !.rooToken = token,
                                     !.tokenErrorMessage = None,
                                     !.debounce = @ \/ token # welcome.rooToken]
    /\ UNCHANGED <<toolVars, codeMate>>

\* The useDebounce callback (lines 185-200).
DebounceFires ==
    /\ welcome.debounce
    /\ IF Len(Trim(welcome.rooToken)) > 0
       THEN /\ Len(welcome.requests) < MaxInFlight
            /\ welcome' = [welcome EXCEPT !.debounce = FALSE,
                                          !.isLoadingModels = TRUE,
                                          !.requests = Append(@, Trim(welcome.rooToken))]
       ELSE welcome' = [welcome EXCEPT !.debounce = FALSE,
                                       !.availableModels = <<>>,
                                       !.selectedModelId = "",
                                       !.isLoadingModels = FALSE]
    /\ UNCHANGED <<toolVars, codeMate>>

\* selectedModelId after handleMessage (lines 213-224): the first model is
\* selected only when nothing is selected.
SelectedAfterResponse(selectedModelId, message) ==
    IF /\ message.success
       /\ IsSome(message.models) /\ Len(Val(message.models)) > 0
       /\ selectedModelId = ""
    THEN Val(message.models)[1]
    ELSE selectedModelId

\* handleMessage for a rooModelsWithTokenResponse (lines 207-226), answering
\* any of the requests the extension still holds.
RooModelsWithTokenResponse ==
    /\ \E i \in 1..Len(welcome.requests), message \in RooModelsResponses :
          LET models == IF message.success /\ IsSome(message.models)
                        THEN Val(message.models) ELSE <<>>
          IN  welcome' =
                [welcome EXCEPT
                    !.requests = RemoveAt(@, i),
                    !.isLoadingModels = FALSE,
                    !.availableModels = models,
                    !.tokenErrorMessage =
                        IF message.success THEN None
                        ELSE IF IsSome(message.error) THEN message.error
                        ELSE Some("Failed to fetch models"),
                    !.selectedModelId = SelectedAfterResponse(@, message),
                    !.latest = Some(models)]
    /\ UNCHANGED <<toolVars, codeMate>>

\* The model select's onChange (lines 425-428); the select is rendered when
\* availableModels has a key, with an empty option and one per key.
SelectModel ==
    /\ ~welcome.authInProgress
    /\ welcome.selectedProvider = "roo-token"
    /\ Len(welcome.availableModels) > 0
    /\ \E modelId \in {""} \cup Range(welcome.availableModels) :
          welcome' = [welcome EXCEPT !.selectedModelId = modelId,
                                     !.tokenErrorMessage = None]
    /\ UNCHANGED <<toolVars, codeMate>>

\* handleGetStarted (lines 92-143), clicked on the enabled button (line 467).
\* validateApiConfiguration is not part of these files: either outcome.
HandleGetStarted ==
    /\ ~welcome.authInProgress
    /\ ~(/\ welcome.selectedProvider = "roo-token"
         /\ Trim(welcome.rooToken) = "" \/ welcome.selectedModelId = "")
    /\ \/ /\ welcome.selectedProvider = "roo"
          /\ welcome' = [welcome EXCEPT
                            !.authInProgress = TRUE,
                            !.posted = Some([type |-> "rooCloudSignIn", apiModelId |-> "",
                                             token |-> "", latest |-> None])]
       \/ /\ welcome.selectedProvider = "roo-token"
          /\ IF Trim(welcome.rooToken) = ""
             THEN welcome' = [welcome EXCEPT !.tokenErrorMessage = Some("Please enter a token")]
             ELSE IF welcome.selectedModelId = ""
             THEN welcome' = [welcome EXCEPT !.tokenErrorMessage = Some("Please select a model")]
             ELSE welcome' = [welcome EXCEPT
                                !.tokenErrorMessage = None,
                                !.posted = Some([type |-> "upsertApiConfiguration",
                                                 apiModelId |-> welcome.selectedModelId,
                                                 token |-> Trim(welcome.rooToken),
                                                 latest |-> welcome.latest])]
       \/ /\ welcome.selectedProvider = "custom"
          /\ \E error \in {None, Some("invalid configuration")} :
                IF IsSome(error)
                THEN welcome' = [welcome EXCEPT !.errorMessage = error]
                ELSE welcome' = [welcome EXCEPT
                                    !.errorMessage = None,
                                    !.posted = Some([type |-> "upsertApiConfiguration",
                                                     apiModelId |-> "", token |-> "",
                                                     latest |-> None])]
    /\ UNCHANGED <<toolVars, codeMate>>

\* handleGoBack (lines 145-150), the button of the waiting view.
HandleGoBack ==
    /\ welcome.authInProgress
    /\ welcome' = [welcome EXCEPT !.authInProgress = FALSE]
    /\ UNCHANGED <<toolVars, codeMate>>

NextWelcome ==
    \/ SelectProvider
    \/ HandleTokenChange
    \/ DebounceFires
    \/ RooModelsWithTokenResponse
    \/ SelectModel
    \/ HandleGetStarted
    \/ HandleGoBack

SpecWelcome == Init /\ [][NextWelcome]_vars

(***************************************************************************)
(* CodeMate: validation of the API key.                                    *)
(***************************************************************************)
\* What the user can type into the key field; "" clears it.
ApiKeys == {"", "key1", "key2"}
BaseUrls == {None, Some("https://codemate")}
\* message.openAiModels of an openAiModels message.
OpenAiModelLists == {None, Some(<<>>), Some(<<"cm1">>), Some(<<"cm1", "cm2">>)}

\* The validation both the debounce callback (lines 115-141) and the effect
\* on a changed key (lines 56-76) run for a non-empty key.
StartValidation(cm, apiKey) ==
    IF IsSome(cm.openAiBaseUrl)
    THEN [cm EXCEPT !.validationStatus = "validating",
                    !.lastValidatedKeyRef = Some(apiKey),
                    !.requests = Append(@, apiKey),
                    !.lastRequested = Some(apiKey)]
    ELSE [cm EXCEPT !.validationStatus = "invalid",
                    !.lastValidatedKeyRef = Some(apiKey),
                    !.openAiModels = None]

\* The returned onInput handler of handleInputChange("openAiApiKey") up to
\* setTimeout (lines 91-104): the earlier timeout is replaced.
HandleInputChange ==
    /\ \E value \in ApiKeys :
          codeMate' = [codeMate EXCEPT !.validationStatus = "idle",
                                       !.debounceTimeoutRef = Some(value)]
    /\ UNCHANGED <<toolVars, welcome>>

\* The timeout's callback (lines 104-142); setApiConfigurationField makes the
\* value the openAiApiKey prop, and the effect on the changed prop (lines
\* 40-83) finds the key in lastValidatedKeyRef, or an idle status, and does
\* nothing.
InputDebounceFires ==
    /\ IsSome(codeMate.debounceTimeoutRef)
    /\ LET value == Val(codeMate.debounceTimeoutRef)
           set == [codeMate EXCEPT !.debounceTimeoutRef = None, !.openAiApiKey = value]
       IN  IF value = ""
           THEN codeMate' = [set EXCEPT !.validationStatus = "idle",
                                        !.openAiModels = None,
                                        !.lastValidatedKeyRef = None]
           ELSE /\ IsSome(codeMate.openAiBaseUrl) => Len(codeMate.requests) < MaxInFlight
                /\ codeMate' = StartValidation(set, value)
    /\ UNCHANGED <<toolVars, welcome>>

\* The openAiApiKey prop changes from outside the component and the effect
\* of lines 40-83 runs.
ApiKeyChanges ==
    /\ \E apiKey \in ApiKeys \ {codeMate.openAiApiKey} :
          LET set == [codeMate EXCEPT !.openAiApiKey = apiKey]
          IN  IF Some(apiKey) = codeMate.lastValidatedKeyRef
              THEN codeMate' = set
              ELSE IF apiKey # "" /\ codeMate.validationStatus = "invalid"
              THEN /\ IsSome(codeMate.openAiBaseUrl) => Len(codeMate.requests) < MaxInFlight
                   /\ codeMate' = StartValidation(set, apiKey)
              ELSE IF apiKey = "" /\ codeMate.validationStatus # "idle"
              THEN codeMate' = [set EXCEPT !.validationStatus = "idle",
                                           !.openAiModels = None,
                                           !.lastValidatedKeyRef = None]
              ELSE codeMate' = set
    /\ UNCHANGED <<toolVars, welcome>>

\* The openAiBaseUrl prop changes; apiConfigurationRef follows (lines 35-37).
BaseUrlChanges ==
    /\ \E baseUrl \in BaseUrls \ {codeMate.openAiBaseUrl} :
          codeMate' = [codeMate EXCEPT !.openAiBaseUrl = baseUrl]
    /\ UNCHANGED <<toolVars, welcome>>

\* The test of line 155: the message carries no key, so the request it
\* answers plays no part.
OnMessageProcesses(cm, requestKey) ==
    /\ cm.openAiApiKey # ""
    /\ Some(cm.openAiApiKey) = cm.lastValidatedKeyRef

\* onMessage for an openAiModels message (lines 147-171), answering any of
\* the requests the extension still holds.
OnMessage ==
    /\ \E i \in 1..Len(codeMate.requests), openAiModels \in OpenAiModelLists :
          LET updatedModels == IF IsSome(openAiModels) THEN Val(openAiModels) ELSE <<>>
              answered == [codeMate EXCEPT !.requests = RemoveAt(@, i),
                                           !.answered = Some(codeMate.requests[i])]
          IN  IF OnMessageProcesses(codeMate, codeMate.requests[i])
              THEN IF Len(updatedModels) > 0
                   THEN codeMate' = [answered EXCEPT !.validationStatus = "valid",
                                                     !.openAiModels = Some(updatedModels)]
                   ELSE codeMate' = [answered EXCEPT !.validationStatus = "invalid",
                                                     !.openAiModels = None]
              ELSE codeMate' = answered
    /\ UNCHANGED <<toolVars, welcome>>

\* The model dropdown's onChange (lines 218-221), rendered for a valid key
\* with models (line 214).
SelectOpenAiModel ==
    /\ codeMate.validationStatus = "valid"
    /\ IsSome(codeMate.openAiModels)
    /\ Len(Val(codeMate.openAiModels)) > 0
    /\ \E modelId \in Range(Val(codeMate.openAiModels)) :
          codeMate' = [codeMate EXCEPT !.openAiModelId = modelId]
    /\ UNCHANGED <<toolVars, welcome>>

NextCodeMate ==
    \/ HandleInputChange
    \/ InputDebounceFires
    \/ ApiKeyChanges
    \/ BaseUrlChanges
    \/ OnMessage
    \/ SelectOpenAiModel

SpecCodeMate == Init /\ [][NextCodeMate]_vars

(***************************************************************************)
(* Properties.                                                             *)
(***************************************************************************)
InFilter == call.op = "filterNativeToolsForMode"
InAllowed == call.op = "isToolAllowedInMode"

\* The candidate positions and the presented names of the output list.
EmittedSrc == {call.list[i].src : i \in 1..Len(call.list)}
PresentedNames == {call.list[i].name : i \in 1..Len(call.list)}
\* The names of the candidate definitions the output loop can emit.
FunctionCandidates ==
    {call.in.nativeTools[i].name :
        i \in {j \in 1..Len(call.in.nativeTools) : call.in.nativeTools[j].kind = "function"}}
EmittedCandidates == {call.in.nativeTools[i].name : i \in EmittedSrc}

CallModeConfig == ResolveModeConfig(call.in.mode, call.in.customModes)
CallModelInfo == ModelInfoOf(call.in.settings)
CallIncluded ==
    IF IsSome(CallModelInfo) /\ IsSome(Val(CallModelInfo).includedTools)
    THEN Val(Val(CallModelInfo).includedTools) ELSE <<>>
CallExcluded ==
    IF IsSome(CallModelInfo) /\ IsSome(Val(CallModelInfo).excludedTools)
    THEN Val(Val(CallModelInfo).excludedTools) ELSE <<>>
CallGateRemoved ==
    GateRemoved(call.in.experiments, call.in.codeIndexManager, call.in.settings, call.in.mcpHub)

\* C1: Cross-consistency: filterNativeToolsForMode emits a candidate tool if
\* and only if isToolAllowedInMode returns true for it on the same inputs.
C1_CrossConsistency ==
    InFilter =>
        \A i \in 1..Len(call.in.nativeTools) :
            call.in.nativeTools[i].kind = "function" =>
                (i \in EmittedSrc <=>
                    isToolAllowedInMode(call.in.nativeTools[i].name, call.in.mode,
                        call.in.customModes, call.in.experiments,
                        call.in.codeIndexManager, call.in.settings))

\* C2: Group containment: a tool named in includedTools (by canonical name or
\* by alias) whose owning group is not among the mode's group entries is not
\* added: unless the mode filter had already allowed it, it is neither in the
\* set applyModelToolCustomization returns nor in the output.
C2_GroupContainment ==
    InFilter =>
        \A k \in 1..Len(CallIncluded) :
            LET tool == CallIncluded[k]
                canonical == resolveToolAlias(tool)
                group == toolToGroup(canonical)
            IN  (/\ ~IsSome(group) \/ Val(group) \notin allowedGroups(CallModeConfig)
                 /\ canonical \notin call.base)
                => /\ canonical \notin call.customized
                   /\ canonical \notin EmittedCandidates
                   /\ {tool, canonical} \cap PresentedNames = {}

\* A read-only mode, a model including an edit-group tool, and an output.
C2_Witness ==
    /\ InFilter
    /\ allowedGroups(CallModeConfig) = {"read"}
    /\ "apply_diff" \in Range(CallIncluded)
    /\ "edit_file" \in Range(CallIncluded)
    /\ resolveToolAlias("edit_file") = "apply_diff"
    /\ "apply_diff" \in FunctionCandidates
    /\ "read_file" \in PresentedNames

\* C3: Feature gating is the final pass: with diffEnabled false no output
\* entry is the apply_diff candidate or is named apply_diff or one of its
\* aliases, whatever includedTools asks for.
C3_DiffGateFinal ==
    (InFilter /\ ExplicitlyFalse(call.in.settings, "diffEnabled")) =>
        /\ "apply_diff" \notin EmittedCandidates
        /\ Range(getToolAliasGroup("apply_diff")) \cap PresentedNames = {}
        /\ "apply_diff" \notin call.final

\* The model re-adds apply_diff by name and by alias, its group is permitted,
\* and the gate removes it.
C3_Witness ==
    /\ InFilter
    /\ ExplicitlyFalse(call.in.settings, "diffEnabled")
    /\ \E k \in 1..Len(CallIncluded) :
          /\ CallIncluded[k] # "apply_diff"
          /\ resolveToolAlias(CallIncluded[k]) = "apply_diff"
          /\ IncludeAccepted(CallIncluded[k], CallModeConfig)
    /\ "apply_diff" \in Range(CallIncluded)
    /\ "apply_diff" \in call.customized
    /\ "apply_diff" \in FunctionCandidates
    /\ "apply_diff" \notin call.final

\* C4: Alias widening: every alias name of a canonical tool allowed after
\* model customisation is in the allowed set after applyToolAliases, and a
\* candidate named by such an alias is emitted unless a gate removes it.
C4_AliasWidening ==
    InFilter =>
        \A c \in call.customized :
            \A k \in 1..Len(getToolAliasGroup(c)) :
                LET a == getToolAliasGroup(c)[k]
                IN  /\ a \in applyToolAliases(call.customized)
                    /\ (a \in FunctionCandidates /\ a \notin CallGateRemoved
                            /\ c \notin CallGateRemoved)
                       => a \in EmittedCandidates

\* C5: Default-mode fallback: a call whose slug matches no mode returns what
\* the same call with the default mode slug returns.
C5_DefaultModeFallback ==
    (/\ InFilter
     /\ IsSome(call.in.mode)
     /\ ~IsSome(getModeBySlug(Val(call.in.mode), call.in.customModes)))
    => call.list = filterNativeToolsForMode(call.in.nativeTools, Some(defaultModeSlug),
                       call.in.customModes, call.in.experiments, call.in.codeIndexManager,
                       call.in.settings, call.in.mcpHub)

\* The premise of the rename claim for the k-th entry of includedTools: an
\* alias of a canonical tool whose group is permitted, that no gate removes
\* and that has a candidate definition.
RenameCase(k) ==
    LET a == CallIncluded[k]
        c == resolveToolAlias(a)
    IN  /\ a # c
        /\ IncludeAccepted(a, CallModeConfig)
        /\ c \notin CallGateRemoved
        /\ c \in FunctionCandidates

\* C6 as stated: every alias entry of includedTools in the rename case is a
\* presented name of the output, and its canonical name is not.
C6_RenameEveryAlias ==
    InFilter =>
        \A k \in 1..Len(CallIncluded) :
            RenameCase(k) =>
                /\ CallIncluded[k] \in PresentedNames
                /\ resolveToolAlias(CallIncluded[k]) \notin PresentedNames

\* C6: Rename correctness: in the rename case the canonical tool is in the
\* allowed set, its candidate is emitted and presented under the last alias
\* of it that includedTools lists, and no entry is named by the canonical name.
C6_RenameLastAlias ==
    InFilter =>
        \A k \in 1..Len(CallIncluded) :
            LET a == CallIncluded[k]
                c == resolveToolAlias(a)
                later == {j \in (k + 1)..Len(CallIncluded) :
                            /\ resolveToolAlias(CallIncluded[j]) = c
                            /\ CallIncluded[j] # c}
            IN  (RenameCase(k) /\ later = {}) =>
                    /\ c \in call.final
                    /\ \E i \in 1..Len(call.list) :
                          /\ call.in.nativeTools[call.list[i].src].name = c
                          /\ call.list[i].name = a
                    /\ c \notin PresentedNames

\* The custom tool search_and_replace, included by its alias, is presented
\* under the alias.
C6_Witness ==
    /\ InFilter
    /\ "edit_file" \in Range(CallIncluded)
    /\ resolveToolAlias("edit_file") = "search_and_replace"
    /\ \E i \in 1..Len(call.list) :
          /\ call.in.nativeTools[call.list[i].src].name = "search_and_replace"
          /\ call.list[i].name = "edit_file"

C8_ExcludedAndIncluded ==
    InFilter =>
        \A e \in 1..Len(CallExcluded), k \in 1..Len(CallIncluded) :
            (/\ resolveToolAlias(CallExcluded[e]) = resolveToolAlias(CallIncluded[k])
             /\ resolveToolAlias(CallIncluded[k]) \in getAllToolNames)
                => resolveToolAlias(CallIncluded[k]) \in call.customized

\* C8: Exclude-then-include: a tool named in both lists, whose owning group
\* is among the mode's group entries, is in the set
\* applyModelToolCustomization returns.
C8_ExcludeThenInclude ==
    InFilter =>
        \A e \in 1..Len(CallExcluded), k \in 1..Len(CallIncluded) :
            LET c == resolveToolAlias(CallIncluded[k])
            IN  (/\ resolveToolAlias(CallExcluded[e]) = c
                 /\ IsSome(toolToGroup(c))
                 /\ Val(toolToGroup(c)) \in allowedGroups(CallModeConfig))
                => c \in call.customized

\* apply_diff, allowed by the mode, is excluded by its canonical name and
\* included by an alias.
C8_Witness ==
    /\ InFilter
    /\ "apply_diff" \in call.base
    /\ CallExcluded = <<"apply_diff">>
    /\ \E k \in 1..Len(CallIncluded) :
          /\ CallIncluded[k] # "apply_diff"
          /\ resolveToolAlias(CallIncluded[k]) = "apply_diff"
    /\ "apply_diff" \notin Range(CallIncluded)
    /\ "apply_diff" \in call.customized

\* The aliases the canonical-to-aliases map holds.
RegisteredAliases == UNION {Range(TOOL_ALIASES[c]) : c \in DOMAIN TOOL_ALIASES}

\* The tool identifiers of the catalog, tools and customTools of every group.
CatalogNames ==
    {"read_file", "search_files", "list_files", "codebase_search", "apply_diff",
     "write_to_file", "generate_image", "search_and_replace", "apply_patch",
     "browser_action", "execute_command", "use_mcp_tool", "access_mcp_resource",
     "switch_mode", "new_task"}

\* Some alias of the list is a registered alias, a key of the
\* canonical-to-aliases map or a tool identifier of the catalog.
AliasConflict(aliases) ==
    \E i \in 1..Len(aliases) :
        \/ aliases[i] \in RegisteredAliases
        \/ aliases[i] \in DOMAIN TOOL_ALIASES
        \/ aliases[i] \in CatalogNames

\* C9: Alias registration conflict: a registerToolAliases call with a
\* conflicting alias throws, and a call that throws leaves both maps as they
\* were.
C9_RegistrationConflict ==
    [][registered' # registered =>
          /\ AliasConflict(lastReg'.aliases) => lastReg'.threw
          /\ lastReg'.threw =>
                /\ TOOL_ALIASES' = TOOL_ALIASES
                /\ ALIAS_TO_CANONICAL' = ALIAS_TO_CANONICAL]_vars

\* A call threw on a non-empty registry: one of its aliases was registered
\* for another tool, another names a tool of the catalog.
C9_Witness ==
    /\ lastReg.threw
    /\ TOOL_ALIASES # EmptyMap
    /\ Range(lastReg.aliases) \cap RegisteredAliases # {}
    /\ Range(lastReg.aliases) \cap CatalogNames # {}
    /\ lastReg.toolName \notin DOMAIN TOOL_ALIASES

\* C10: Alias registry invariant: no registered alias is a key of the
\* canonical-to-aliases map, no alias belongs to two canonical tools, and no
\* alias appears twice in one tool's alias list.
C10_RegistryInvariant ==
    \A c \in DOMAIN TOOL_ALIASES :
        /\ Range(TOOL_ALIASES[c]) \cap DOMAIN TOOL_ALIASES = {}
        /\ \A d \in DOMAIN TOOL_ALIASES \ {c} :
              Range(TOOL_ALIASES[c]) \cap Range(TOOL_ALIASES[d]) = {}
        /\ \A i, j \in 1..Len(TOOL_ALIASES[c]) :
              i # j => TOOL_ALIASES[c][i] # TOOL_ALIASES[c][j]

\* The successful registerToolAliases calls behind the registry, one per key
\* of the canonical-to-aliases map, applied in the given order of the keys
\* to an empty registry.
ReplayRegistrations(order) ==
    LET F[i \in 0..Len(order)] ==
            IF i = 0 THEN [ta |-> EmptyMap, ac |-> EmptyMap, threw |-> FALSE]
            ELSE registerToolAliasesOn(F[i - 1], order[i], TOOL_ALIASES[order[i]])
    IN  F[Len(order)]

RegistrationOrders ==
    {o \in [1..Cardinality(DOMAIN TOOL_ALIASES) -> DOMAIN TOOL_ALIASES] :
        \A i, j \in DOMAIN o : i # j => o[i] # o[j]}

\* C11: Commutative registration: the calls that built the registry, applied
\* in any order, all succeed and yield the same two maps.
C11_CommutativeRegistration ==
    \A order \in RegistrationOrders :
        ReplayRegistrations(order) =
            [ta |-> TOOL_ALIASES, ac |-> ALIAS_TO_CANONICAL, threw |-> FALSE]

C13_OutputSubsequence ==
    InFilter =>
        /\ \A i \in 1..Len(call.list) :
              LET src == call.list[i].src
              IN  /\ src \in 1..Len(call.in.nativeTools)
                  /\ call.in.nativeTools[src].kind = "function"
                  /\ \/ call.list[i].name = call.in.nativeTools[src].name
                     \/ /\ call.in.nativeTools[src].name \in DOMAIN call.aliasRenames
                        /\ call.list[i].name = call.aliasRenames[call.in.nativeTools[src].name]
        /\ \A i, j \in 1..Len(call.list) : i < j => call.list[i].src < call.list[j].src
        /\ Len(call.list) <= Len(call.in.nativeTools)
        /\ \A t \in call.final \ FunctionCandidates :
              t \notin EmittedCandidates \cup PresentedNames

\* A candidate list that defines one tool twice and another not as a
\* function: both definitions of the first are emitted, in order, one entry
\* is renamed, and the allowed apply_diff has no entry.
C13_Witness ==
    /\ InFilter
    /\ call.in.nativeTools = FewCandidates
    /\ "apply_diff" \in call.final \ FunctionCandidates
    /\ \E i, j \in 1..Len(call.list) :
          /\ i < j
          /\ call.in.nativeTools[call.list[i].src].name = "search_and_replace"
          /\ call.in.nativeTools[call.list[j].src].name = "search_and_replace"
          /\ call.list[i].name = "edit_file"
    /\ "read_file" \in PresentedNames

\* C14: Totality: on a registry built by the load's registrations, every
\* call of filterNativeToolsForMode, isToolAllowedInMode,
\* getAvailableToolsInGroup and filterMcpToolsForMode returns a result: none
\* throws, whatever its inputs are.
C14_Totality ==
    (phase = "ready" /\ call.op # "none") => ~call.threw

\* A call with an unknown mode slug, no custom modes, experiments, manager
\* or hub, and a model naming a tool neither the catalog nor the registry
\* knows, returns a list.
C14_Witness ==
    /\ InFilter
    /\ ~call.threw
    /\ IsSome(call.in.mode)
    /\ ~IsSome(getModeBySlug(Val(call.in.mode), call.in.customModes))
    /\ ~IsSome(call.in.customModes)
    /\ ~IsSome(call.in.experiments)
    /\ ~IsSome(call.in.codeIndexManager)
    /\ ~IsSome(call.in.mcpHub)
    /\ \E k \in 1..Len(CallIncluded) :
          CallIncluded[k] \notin getAllToolNames \cup DOMAIN ALIAS_TO_CANONICAL
    /\ TOOL_ALIASES # EmptyMap
    /\ Len(call.list) > 0

\* allowedToolNames when the gate rules start (line 449).
CallBeforeGates == applyToolAliases(call.customized)

\* The tools a gate rule names.
GatedToolNames ==
    {"codebase_search", "update_todo_list", "generate_image", "run_slash_command",
     "browser_action", "apply_diff", "access_mcp_resource"}

\* C15: Feature gating is pure subtraction and exhaustive: the allowed set
\* after the gate rules is a subset of the set before them, and a tool other
\* than the seven gated ones is in the one exactly if it is in the other.
C15_GateSubtraction ==
    InFilter =>
        /\ call.final \subseteq CallBeforeGates
        /\ \A t \in (CallBeforeGates \cup call.final \cup getAllToolNames
                        \cup Range(ALWAYS_AVAILABLE_TOOLS)) \ GatedToolNames :
              t \in call.final <=> t \in CallBeforeGates

\* Every switch off: the gates delete the seven tools they name from a set
\* that held them and keep the other edit and read tools.
C15_Witness ==
    /\ InFilter
    /\ GatedToolNames \ {"generate_image", "run_slash_command"} \subseteq CallBeforeGates
    /\ GatedToolNames \cap call.final = {}
    /\ ExplicitlyFalse(call.in.settings, "diffEnabled")
    /\ {"write_to_file", "read_file", "use_mcp_tool"} \subseteq call.final
    /\ "write_to_file" \in PresentedNames

\* C16: Semantic-search gate: unless a code-index manager is supplied whose
\* isFeatureEnabled, isFeatureConfigured and isInitialized are all true, no
\* output entry is the codebase_search candidate or carries its name, in
\* every mode and whatever includedTools names.
C16_SemanticSearchGate ==
    (/\ InFilter
     /\ \/ ~IsSome(call.in.codeIndexManager)
        \/ ~Val(call.in.codeIndexManager).isFeatureEnabled
        \/ ~Val(call.in.codeIndexManager).isFeatureConfigured
        \/ ~Val(call.in.codeIndexManager).isInitialized)
    => /\ "codebase_search" \notin EmittedCandidates
       /\ "codebase_search" \notin PresentedNames
       /\ "codebase_search" \notin call.final

\* A manager that is enabled and configured but not initialized, a model
\* that excludes and re-includes codebase_search, and an output without it.
C16_Witness ==
    /\ InFilter
    /\ IsSome(call.in.codeIndexManager)
    /\ Val(call.in.codeIndexManager).isFeatureEnabled
    /\ Val(call.in.codeIndexManager).isFeatureConfigured
    /\ ~Val(call.in.codeIndexManager).isInitialized
    /\ "codebase_search" \in Range(CallIncluded) \cap Range(CallExcluded)
    /\ "codebase_search" \in call.customized
    /\ "codebase_search" \in FunctionCandidates
    /\ "codebase_search" \notin EmittedCandidates
    /\ "read_file" \in PresentedNames

\* No hub is supplied, or no server of the hub has a non-empty resources list.
CallWithoutResources ==
    \/ ~IsSome(call.in.mcpHub)
    \/ \A i \in 1..Len(Val(call.in.mcpHub)) :
          \/ ~IsSome(Val(call.in.mcpHub)[i].resources)
          \/ Val(Val(call.in.mcpHub)[i].resources) = <<>>

\* C17: External-resource gate: without a hub, or with a hub none of whose
\* servers has a non-empty resources list, no output entry is the
\* access_mcp_resource candidate or carries its name; with some server
\* having resources the tool is allowed after the gates exactly if it was
\* allowed before them.
C17_ExternalResourceGate ==
    InFilter =>
        IF CallWithoutResources
        THEN /\ "access_mcp_resource" \notin EmittedCandidates
             /\ "access_mcp_resource" \notin PresentedNames
             /\ "access_mcp_resource" \notin call.final
        ELSE /\ "access_mcp_resource" \in call.final
                    <=> "access_mcp_resource" \in CallBeforeGates
             /\ ("access_mcp_resource" \in call.final
                    /\ "access_mcp_resource" \in FunctionCandidates)
                => "access_mcp_resource" \in EmittedCandidates

\* A hub whose servers have no resources list or an empty one, a model that
\* includes access_mcp_resource in a mode with the mcp group, and an output
\* without it.
C17_Witness ==
    /\ InFilter
    /\ IsSome(call.in.mcpHub)
    /\ Len(Val(call.in.mcpHub)) = 2
    /\ CallWithoutResources
    /\ "access_mcp_resource" \in Range(CallIncluded)
    /\ "mcp" \in allowedGroups(CallModeConfig)
    /\ "access_mcp_resource" \in CallBeforeGates
    /\ "access_mcp_resource" \in FunctionCandidates
    /\ "access_mcp_resource" \notin EmittedCandidates
    /\ "use_mcp_tool" \in PresentedNames

\* The tools that belong to a group's customTools and to no group's tools.
CustomOnlyTools ==
    {t \in getAllToolNames :
        \A g \in 1..Len(GroupNames) : t \notin Range(TOOL_GROUPS[GroupNames[g]].tools)}

\* C18: Opt-in custom tools: a tool of a customTools partition only is
\* allowed or emitted only if includedTools names it, by its canonical name
\* or by an alias, and its group is among the mode configuration's groups;
\* without modelInfo or without such an entry it is never emitted.
C18_OptInCustomTools ==
    InFilter =>
        \A t \in CustomOnlyTools :
            (t \in call.customized \cup call.final \cup EmittedCandidates)
            => /\ IsSome(CallModelInfo)
               /\ \E k \in 1..Len(CallIncluded) : resolveToolAlias(CallIncluded[k]) = t
               /\ Val(toolToGroup(t)) \in allowedGroups(CallModeConfig)

\* search_and_replace, included by its canonical name in a mode with the
\* edit group, is emitted under that name.
C18_Witness ==
    /\ InFilter
    /\ "search_and_replace" \in CustomOnlyTools
    /\ "search_and_replace" \in Range(CallIncluded)
    /\ "search_and_replace" \notin call.base
    /\ "edit" \in allowedGroups(CallModeConfig)
    /\ "search_and_replace" \in EmittedCandidates
    /\ "search_and_replace" \in PresentedNames

\* The model descriptions obtained from the call's by replacing one alias
\* entry of includedTools or of excludedTools by the canonical name it
\* resolves to.
CanonicalVariants ==
    {[Val(CallModelInfo) EXCEPT
         !.includedTools = Some([CallIncluded EXCEPT ![k] = resolveToolAlias(CallIncluded[k])])] :
        k \in {j \in 1..Len(CallIncluded) : CallIncluded[j] # resolveToolAlias(CallIncluded[j])}}
    \cup
    {[Val(CallModelInfo) EXCEPT
         !.excludedTools = Some([CallExcluded EXCEPT ![e] = resolveToolAlias(CallExcluded[e])])] :
        e \in {j \in 1..Len(CallExcluded) : CallExcluded[j] # resolveToolAlias(CallExcluded[j])}}

\* C19: The rename map affects presentation only: with an alias entry of
\* includedTools or excludedTools replaced by its canonical name the allowed
\* set is the same, the output has the same candidates at the same
\* positions, and two entries differ in name only where the call's rename
\* map names the candidate.
C19_RenamePresentationOnly ==
    (InFilter /\ IsSome(CallModelInfo)) =>
        \A info \in CanonicalVariants :
            LET settings == Some([Val(call.in.settings) EXCEPT !.modelInfo = Some(info)])
                final == FinalAllowed(call.in.mode, call.in.customModes, call.in.experiments,
                                      call.in.codeIndexManager, settings, call.in.mcpHub)
                list == filterNativeToolsForMode(call.in.nativeTools, call.in.mode,
                            call.in.customModes, call.in.experiments,
                            call.in.codeIndexManager, settings, call.in.mcpHub)
            IN  /\ final = call.final
                /\ Len(list) = Len(call.list)
                /\ \A i \in 1..Len(list) :
                      /\ list[i].src = call.list[i].src
                      /\ list[i].name # call.list[i].name
                            => call.in.nativeTools[list[i].src].name \in DOMAIN call.aliasRenames

\* apply_diff is excluded by one alias and included by another: the output
\* presents it under the second, and both entries have a canonical variant.
C19_Witness ==
    /\ InFilter
    /\ \E e \in 1..Len(CallExcluded), k \in 1..Len(CallIncluded) :
          /\ CallExcluded[e] # resolveToolAlias(CallExcluded[e])
          /\ CallIncluded[k] # CallExcluded[e]
          /\ resolveToolAlias(CallIncluded[k]) = resolveToolAlias(CallExcluded[e])
          /\ CallIncluded[k] \in PresentedNames
    /\ Cardinality(CanonicalVariants) >= 2
    /\ "apply_diff" \in EmittedCandidates

\* An always-available tool that its own gate row does not hit is reported
\* allowed by isToolAllowedInMode, whatever the mode slug and the custom
\* modes are.
AlwaysAvailableReported ==
    (/\ InAllowed
     /\ call.in.toolName \in Range(ALWAYS_AVAILABLE_TOOLS)
     /\ call.in.toolName \notin CallGateRemoved)
    => call.flag

\* C20: Always-available tools are not removable by mode policy: an
\* always-available tool that its gate row does not hit and that no entry of
\* excludedTools names, by its name or by an alias of it, is reported
\* allowed and, having a candidate definition, emitted, for every mode slug
\* and custom-mode list.
C20_AlwaysAvailableKept ==
    /\ AlwaysAvailableReported
    /\ InFilter =>
          \A t \in Range(ALWAYS_AVAILABLE_TOOLS) :
              (/\ t \notin CallGateRemoved
               /\ \A e \in 1..Len(CallExcluded) :
                     CallExcluded[e] # t /\ resolveToolAlias(CallExcluded[e]) # t
               /\ t \in FunctionCandidates)
              => t \in EmittedCandidates

\* A slug that names no mode and a model excluding another tool by alias:
\* the always-available tools with a candidate definition are emitted.
C20_Witness ==
    /\ InFilter
    /\ IsSome(call.in.mode)
    /\ ~IsSome(getModeBySlug(Val(call.in.mode), call.in.customModes))
    /\ \E e \in 1..Len(CallExcluded) :
          resolveToolAlias(CallExcluded[e]) \notin Range(ALWAYS_AVAILABLE_TOOLS) \cup {CallExcluded[e]}
    /\ {"update_todo_list", "attempt_completion", "switch_mode", "run_slash_command"}
          \subseteq EmittedCandidates

\* The names the alias queries are asked about: the tools and aliases of the
\* registrations and a name no registration mentions.
QueriedNames == RegTools \cup AliasNames \cup {"list_files"}

\* C21: Alias queries: resolveToolAlias gives the canonical tool of a
\* registered alias and the name itself otherwise, and is idempotent;
\* getToolAliasGroup(n) contains n, starts with resolveToolAlias(n) followed
\* by that tool's aliases, is the same list for a canonical tool and each of
\* its aliases, and is <<n>> for a name that is neither.
C21_AliasQueries ==
    \A n \in QueriedNames :
        /\ n \in RegisteredAliases =>
              \E c \in DOMAIN TOOL_ALIASES :
                  n \in Range(TOOL_ALIASES[c]) /\ resolveToolAlias(n) = c
        /\ n \notin RegisteredAliases => resolveToolAlias(n) = n
        /\ resolveToolAlias(resolveToolAlias(n)) = resolveToolAlias(n)
        /\ n \in Range(getToolAliasGroup(n))
        /\ getToolAliasGroup(n)[1] = resolveToolAlias(n)
        /\ resolveToolAlias(n) \in DOMAIN TOOL_ALIASES =>
              getToolAliasGroup(n) = <<resolveToolAlias(n)>> \o TOOL_ALIASES[resolveToolAlias(n)]
        /\ getToolAliasGroup(n) = getToolAliasGroup(resolveToolAlias(n))
        /\ (n \notin DOMAIN TOOL_ALIASES /\ n \notin RegisteredAliases) =>
              getToolAliasGroup(n) = <<n>>

\* isToolAllowedInMode is asked about the second alias of apply_diff while
\* another tool has an alias of its own.
C21_Witness ==
    /\ InAllowed
    /\ call.in.toolName = "write_file"
    /\ getToolAliasGroup("write_file") = <<"apply_diff", "edit_file", "write_file">>
    /\ getToolAliasGroup("apply_diff") = getToolAliasGroup("edit_file")
    /\ resolveToolAlias("write_file") = "apply_diff"
    /\ getToolAliasGroup("list_files") = <<"list_files">>
    /\ resolveToolAlias("search_and_replace") = "search_and_replace"

InMcp == call.op = "filterMcpToolsForMode"

\* use_mcp_tool is permitted for the call's mode slug, the default slug when
\* none is given: the slug names a mode, a custom one first, and the group
\* mcp is among the mode's group entries.
McpPermitted ==
    LET slug == IF IsSome(call.in.mode) THEN Val(call.in.mode) ELSE defaultModeSlug
        custom == IF IsSome(call.in.customModes) THEN Val(call.in.customModes) ELSE <<>>
        found == IF \E i \in 1..Len(custom) : custom[i].slug = slug
                 THEN {custom[CHOOSE i \in 1..Len(custom) :
                                 /\ custom[i].slug = slug
                                 /\ \A j \in 1..(i - 1) : custom[j].slug # slug]}
                 ELSE {modes[i] : i \in {j \in 1..Len(modes) : modes[j].slug = slug}}
    IN  \E m \in found : \E g \in 1..Len(m.groups) : m.groups[g][1] = "mcp"

\* C22: filterMcpToolsForMode is an all-or-nothing gate: it returns the
\* input list as it is when use_mcp_tool is permitted for the mode slug and
\* the empty list otherwise, never a part of the input.
C22_McpAllOrNothing ==
    InMcp =>
        /\ call.list \in {call.in.mcpTools, <<>>}
        /\ McpPermitted => call.list = call.in.mcpTools
        /\ ~McpPermitted => call.list = <<>>

\* No slug is given, the default mode has the mcp group, and the two tools
\* of the input are returned in their order.
C22_Witness ==
    /\ InMcp
    /\ ~IsSome(call.in.mode)
    /\ IsSome(call.in.customModes)
    /\ Len(call.in.mcpTools) = 2
    /\ call.list = call.in.mcpTools

InGroupQuery == call.op = "getAvailableToolsInGroup"

\* C23: getAvailableToolsInGroup returns, in the group's declared order and
\* once each, exactly the entries of the group's tools for which
\* isToolAllowedInMode is true on the same inputs, no entry of customTools,
\* and the empty list for a name that is no group of the catalog.
C23_GroupQuery ==
    InGroupQuery =>
        IF call.in.groupName \notin DOMAIN TOOL_GROUPS THEN call.list = <<>>
        ELSE LET group == TOOL_GROUPS[call.in.groupName]
                 pos(t) == CHOOSE i \in 1..Len(group.tools) : group.tools[i] = t
             IN  /\ Range(call.list) =
                        {t \in Range(group.tools) :
                            isToolAllowedInMode(t, call.in.mode, call.in.customModes,
                                call.in.experiments, call.in.codeIndexManager,
                                call.in.settings)}
                 /\ \A i, j \in 1..Len(call.list) :
                        i < j => pos(call.list[i]) < pos(call.list[j])
                 /\ IsSome(group.customTools) =>
                        Range(call.list) \cap Range(Val(group.customTools)) = {}

\* The edit group in a mode that has it: its three tools in their order,
\* and neither of its customTools.
C23_Witness ==
    /\ InGroupQuery
    /\ call.in.groupName = "edit"
    /\ IsSome(TOOL_GROUPS["edit"].customTools)
    /\ call.list = <<"apply_diff", "write_to_file", "generate_image">>
    /\ TOOL_ALIASES # EmptyMap

\* The lists with the entries of s in another or the same order.
PermutedLists(s) ==
    {[i \in 1..Len(s) |-> s[p[i]]] :
        p \in {q \in [1..Len(s) -> 1..Len(s)] : \A i, j \in 1..Len(s) : i # j => q[i] # q[j]}}

\* C24: Order-independence of model customization: with the entries of
\* excludedTools and of includedTools permuted, applyModelToolCustomization
\* returns the same allowed set, and the same rename map when the entries of
\* includedTools resolve to pairwise distinct canonical tools.
C24_OrderIndependence ==
    (InFilter /\ IsSome(CallModelInfo)) =>
        \A ex \in PermutedLists(CallExcluded), inc \in PermutedLists(CallIncluded) :
            LET info == [excludedTools |->
                             IF IsSome(Val(CallModelInfo).excludedTools) THEN Some(ex) ELSE None,
                         includedTools |->
                             IF IsSome(Val(CallModelInfo).includedTools) THEN Some(inc) ELSE None]
                custom == applyModelToolCustomization(call.base, CallModeConfig, Some(info))
            IN  /\ custom.allowedTools = call.customized
                /\ (\A i, j \in 1..Len(CallIncluded) :
                        i # j => resolveToolAlias(CallIncluded[i]) # resolveToolAlias(CallIncluded[j]))
                   => custom.aliasRenames = call.aliasRenames

\* Two excluded and two included entries, an alias among each: the included
\* alias renames the tool the excluded alias removed.
C24_Witness ==
    /\ InFilter
    /\ Len(CallExcluded) = 2
    /\ Len(CallIncluded) = 2
    /\ resolveToolAlias(CallIncluded[1]) # resolveToolAlias(CallIncluded[2])
    /\ resolveToolAlias(CallExcluded[1]) # CallExcluded[1]
    /\ resolveToolAlias(CallExcluded[1]) = resolveToolAlias(CallIncluded[1])
    /\ CallExcluded[2] \in call.base \ call.customized
    /\ DOMAIN call.aliasRenames = {resolveToolAlias(CallIncluded[1])}
    /\ CallIncluded[1] \in PresentedNames

CandidateNamesDistinct ==
    \A i, j \in 1..Len(call.in.nativeTools) :
        call.in.nativeTools[i].name = call.in.nativeTools[j].name => i = j
C27_UniquePresentedNames ==
    (InFilter /\ CandidateNamesDistinct) =>
        \A i, j \in 1..Len(call.list) : call.list[i].name = call.list[j].name => i = j

\* The model lists two aliases of one tool, or an alias with its canonical
\* name, the candidates include a definition named by that alias, and the
\* tool is presented under an alias.
C27_Witness ==
    /\ InFilter
    /\ CandidateNamesDistinct
    /\ Len(CallIncluded) = 2
    /\ CallIncluded[1] # CallIncluded[2]
    /\ resolveToolAlias(CallIncluded[1]) = resolveToolAlias(CallIncluded[2])
    /\ CallIncluded[2] # resolveToolAlias(CallIncluded[2])
    /\ CallIncluded[2] \in FunctionCandidates
    /\ CallIncluded[2] \in PresentedNames

\* C28: WelcomeViewProvider token flow: a non-empty selectedModelId is always
\* a key of availableModels, and the upsertApiConfiguration a Get Started
\* click posts for the roo-token provider names a model of the latest fetch
\* response.
C28_SelectedModelAvailable ==
    /\ welcome.selectedModelId # ""
          => welcome.selectedModelId \in Range(welcome.availableModels)
    /\ (IsSome(welcome.posted) /\ Val(welcome.posted).apiModelId # "")
          => /\ IsSome(Val(welcome.posted).latest)
             /\ Val(welcome.posted).apiModelId \in Range(Val(Val(welcome.posted).latest))

\* C29: CodeMate key validation: an openAiModels response changes the
\* validation status or the model list only when it answers the request that
\* was sent for the API key currently entered; a response to a request for an
\* earlier key, arriving after a request for a newer key was sent, changes
\* neither.
ResponseStep == Len(codeMate'.requests) < Len(codeMate.requests)
C29_StaleResponseIgnored ==
    [][(/\ ResponseStep
        /\ \/ codeMate'.validationStatus # codeMate.validationStatus
           \/ codeMate'.openAiModels # codeMate.openAiModels)
          => /\ codeMate'.answered = Some(codeMate.openAiApiKey)
             /\ codeMate'.answered = codeMate.lastRequested]_vars

=============================================================================
